---- MODULE Spec2Model ----
(***************************************************************************)
(* The lease-based job worker of workers/worker.py: AuthSession, Steps,    *)
(* run and cycle, with the plain-text parser of workers/plaintext.py.      *)
(* One action per call the worker makes; the remote service's answers are  *)
(* chosen nondeterministically.                                            *)
(***************************************************************************)
EXTENDS Integers, Sequences, FiniteSets, TLC

VARIABLES
    pc,        \* position of the single worker thread in cycle/run
    config,    \* the dict load_config returned
    session,   \* cycle's `session`: the AuthSession's token and Authorization header
    job_id,    \* run's local job_id (NoneId while None)
    file_id,   \* run's local file_id
    upsert,    \* run's local upsert
    raw_data,  \* run's local raw_data
    parsed,    \* run's local parsed
    chunks,    \* run's local chunks
    err,       \* the exception in flight (caught by run, or raised to cycle)
    att,       \* history of the current iteration of cycle's while loop
    lastRq,    \* the requests the latest Steps call sent
    call,      \* the latest AuthSession._request call, in full (AuthSpec)
    chunker,   \* the loop of a chunker's chunk(text) call (ChunkSpec)
    main       \* main() of start_worker.py: its environment and what it did (MainSpec)

vars == <<pc, config, session, job_id, file_id, upsert, raw_data, parsed, chunks, err, att, lastRq, call, chunker, main>>

-----------------------------------------------------------------------------
\* Bounds of the model.

\* Number of distinct tokens the login endpoint may issue.
MaxTokens == 2
\* Number of distinct job ids the lease endpoint may return.
MaxJobs == 2

-----------------------------------------------------------------------------
\* Values.

Range(f) == {f[i] : i \in DOMAIN f}

NoneId == 0
NoToken == 0
Tokens == 1..MaxTokens
JobIds == 1..MaxJobs
MissingKey == "<missing>"
NoneStr == "<None>"
EntityIds == {"file-1", "update"}

\* HTTP answers: a status and the part of the body the code looks at.
Statuses == {200, 201, 204, 400, 401, 404, 500}
Bodies == {"", "Token is expired", "invalid token"}
\* Bodies that speak of the token come with the statuses the code reads them under.
Responses ==
    [status : Statuses, text : {""}] \cup [status : {400, 401}, text : Bodies]
\* session.request / session.post raising instead of answering.
ConnErr == [status |-> 0, text |-> "connection failed"]
NoResp == [status |-> 0, text |-> ""]
Outcomes == Responses \cup {ConnErr}

\* Exceptions: the f-string prefix, and the status and body formatted into it.
NoErr == [prefix |-> "", status |-> 0, text |-> ""]
Exc(prefix, resp) == [prefix |-> prefix, status |-> resp.status, text |-> resp.text]
ConnectionError == [prefix |-> "ConnectionError", status |-> 0, text |-> ""]
KeyError(key) == [prefix |-> "KeyError", status |-> 0, text |-> key]
ValueError == [prefix |-> "ValueError", status |-> 0, text |-> ""]
JSONDecodeError == [prefix |-> "JSONDecodeError", status |-> 0, text |-> ""]

\* Faulty variant of Lower: the body is compared without lowering it.
Lower_Identity(s) == s

\* str.lower() on the strings of the model.
Lower(s) ==
    IF s = "Token is expired" THEN "token is expired"
    ELSE IF s = "PlainText" THEN "plaintext"
    ELSE s
\* '"token is expired" in s' on the (lowered) bodies of the model.
HasExpiredText(s) == s = "token is expired"

-----------------------------------------------------------------------------
\* AuthSession.

NoHeader == [scheme |-> "", cred |-> NoToken]
Bearer(t) == [scheme |-> "Bearer", cred |-> t]
NoSession == [token |-> NoToken, auth |-> NoHeader, live |-> FALSE]
\* AuthSession.__init__ before login(): a fresh requests.Session, no token yet.
FreshSession == [token |-> NoToken, auth |-> NoHeader, live |-> TRUE]

\* What the login endpoint may answer: a Response, with the token of its JSON
\* (NoToken: the JSON has no 'token' key), or a connection failure.
LoginOutcomes ==
    {[status |-> 200, text |-> "", token |-> t] : t \in Tokens \cup {NoToken}}
    \cup {[status |-> r.status, text |-> r.text, token |-> NoToken] :
               r \in {x \in Responses : x.status \in {401, 500} /\ x.text # "invalid token"}}
    \cup {[status |-> 0, text |-> ConnErr.text, token |-> NoToken]}
NoLogin == [status |-> 0, text |-> "", token |-> NoToken]

\* A request as handed to requests: method, url, json body, timeout keyword, and
\* the Authorization header the session holds when it is sent.
Req(method, url, json) == [method |-> method, url |-> url, json |-> json, timeout |-> NoneStr]
Stamp(sess, req) == [req |-> req, auth |-> sess.auth]

LoginReq == Req("post", <<"login">>, [email |-> "email", password |-> "password"])

\* Faulty variant of login: the old token and header are dropped before the
\* login request, so a failed login leaves the session without a credential.
login_DropsOldToken(sess, lo) ==
    LET sent == Stamp(sess, LoginReq)
        bare == [sess EXCEPT !.token = NoToken, !.auth = NoHeader]
    IN  IF lo.status = 0
        THEN [sess |-> bare, exc |-> ConnectionError, sent |-> sent]
        ELSE IF lo.status # 200
        THEN [sess |-> bare, exc |-> Exc("Failed to login", lo), sent |-> sent]
        ELSE IF lo.token = NoToken
        THEN [sess |-> bare, exc |-> KeyError("token"), sent |-> sent]
        ELSE [sess |-> [sess EXCEPT !.token = lo.token, !.auth = Bearer(lo.token)],
              exc |-> NoErr, sent |-> sent]

\* Faulty variant of login: the token is stored but the session's Authorization
\* header is not updated.
login_KeepsOldHeader(sess, lo) ==
    LET sent == Stamp(sess, LoginReq) IN
    IF lo.status = 0
    THEN [sess |-> sess, exc |-> ConnectionError, sent |-> sent]
    ELSE IF lo.status # 200
    THEN [sess |-> sess, exc |-> Exc("Failed to login", lo), sent |-> sent]
    ELSE IF lo.token = NoToken
    THEN [sess |-> sess, exc |-> KeyError("token"), sent |-> sent]
    ELSE [sess |-> [sess EXCEPT !.token = lo.token], exc |-> NoErr, sent |-> sent]

\* Faulty variant of login: a 200 answer without a token is accepted.
login_AcceptsNoToken(sess, lo) ==
    LET sent == Stamp(sess, LoginReq) IN
    IF lo.status = 0
    THEN [sess |-> sess, exc |-> ConnectionError, sent |-> sent]
    ELSE IF lo.status # 200
    THEN [sess |-> sess, exc |-> Exc("Failed to login", lo), sent |-> sent]
    ELSE [sess |-> [sess EXCEPT !.token = lo.token, !.auth = Bearer(lo.token)],
          exc |-> NoErr, sent |-> sent]

\* AuthSession.login: the session after it, or the exception it raises.
login(sess, lo) ==
    LET sent == Stamp(sess, LoginReq) IN
    IF lo.status = 0
    THEN [sess |-> sess, exc |-> ConnectionError, sent |-> sent]
    ELSE IF lo.status # 200
    THEN [sess |-> sess, exc |-> Exc("Failed to login", lo), sent |-> sent]
    ELSE IF lo.token = NoToken
    THEN [sess |-> sess, exc |-> KeyError("token"), sent |-> sent]
    ELSE [sess |-> [sess EXCEPT !.token = lo.token, !.auth = Bearer(lo.token)],
          exc |-> NoErr, sent |-> sent]

\* Faulty variant of IsExpired: the 401 case forgotten.
IsExpired_No401(resp) ==
    resp.status = 400 /\ HasExpiredText(Lower(resp.text))

\* Faulty variant of IsExpired: every 400 counts as expiry, whatever its body.
IsExpired_Any400(resp) ==
    resp.status = 401 \/ resp.status = 400

\* The expiry test of _request.
IsExpired(resp) ==
    resp.status = 401 \/ (resp.status = 400 /\ HasExpiredText(Lower(resp.text)))

\* Faulty variant of request: the retry is made but its answer is dropped (the
\* 'return' before the recursive call forgotten), so the expiry answer is returned.
request_ReturnsFirst(sess, req, retry, os, lo) ==
    LET o == Head(os)
        sent == Stamp(sess, req)
    IN  IF o = ConnErr
        THEN [ret |-> NoResp, exc |-> ConnectionError, sess |-> sess,
              sent |-> <<sent>>, got |-> <<o>>, logins |-> <<>>]
        ELSE IF IsExpired(o) /\ retry
        THEN LET lg == login(sess, lo)
                 lgs == <<[sent |-> lg.sent, got |-> lo, exc |-> lg.exc]>>
             IN  IF lg.exc # NoErr
                 THEN [ret |-> NoResp, exc |-> lg.exc, sess |-> lg.sess,
                       sent |-> <<sent>>, got |-> <<o>>, logins |-> lgs]
                 ELSE LET o2 == Head(Tail(os))
                          sent2 == Stamp(lg.sess, req)
                      IN  IF o2 = ConnErr
                          THEN [ret |-> NoResp, exc |-> ConnectionError, sess |-> lg.sess,
                                sent |-> <<sent, sent2>>, got |-> <<o, o2>>, logins |-> lgs]
                          ELSE [ret |-> o, exc |-> NoErr, sess |-> lg.sess,
                                sent |-> <<sent, sent2>>, got |-> <<o, o2>>, logins |-> lgs]
        ELSE [ret |-> o, exc |-> NoErr, sess |-> sess,
              sent |-> <<sent>>, got |-> <<o>>, logins |-> <<>>]

\* Faulty variant of request: a failure of the re-login is swallowed and the
\* expiry answer is returned to the caller.
request_SwallowsLoginError(sess, req, retry, os, lo) ==
    LET o == Head(os)
        sent == Stamp(sess, req)
    IN  IF o = ConnErr
        THEN [ret |-> NoResp, exc |-> ConnectionError, sess |-> sess,
              sent |-> <<sent>>, got |-> <<o>>, logins |-> <<>>]
        ELSE IF IsExpired(o) /\ retry
        THEN LET lg == login(sess, lo)
                 lgs == <<[sent |-> lg.sent, got |-> lo, exc |-> lg.exc]>>
             IN  IF lg.exc # NoErr
                 THEN [ret |-> o, exc |-> NoErr, sess |-> lg.sess,
                       sent |-> <<sent>>, got |-> <<o>>, logins |-> lgs]
                 ELSE LET o2 == Head(Tail(os))
                          sent2 == Stamp(lg.sess, req)
                      IN  IF o2 = ConnErr
                          THEN [ret |-> NoResp, exc |-> ConnectionError, sess |-> lg.sess,
                                sent |-> <<sent, sent2>>, got |-> <<o, o2>>, logins |-> lgs]
                          ELSE [ret |-> o2, exc |-> NoErr, sess |-> lg.sess,
                                sent |-> <<sent, sent2>>, got |-> <<o, o2>>, logins |-> lgs]
        ELSE [ret |-> o, exc |-> NoErr, sess |-> sess,
              sent |-> <<sent>>, got |-> <<o>>, logins |-> <<>>]

\* AuthSession._request(method, url, retry): os are the answers of the
\* successive session.request calls, lo the answer to the re-login.
RECURSIVE request(_, _, _, _, _)
request(sess, req, retry, os, lo) ==
    LET o == Head(os)
        sent == Stamp(sess, req)
    IN  IF o = ConnErr
        THEN [ret |-> NoResp, exc |-> ConnectionError, sess |-> sess,
              sent |-> <<sent>>, got |-> <<o>>, logins |-> <<>>]
        ELSE IF IsExpired(o) /\ retry
        THEN LET lg == login(sess, lo) IN
             IF lg.exc # NoErr
             THEN [ret |-> NoResp, exc |-> lg.exc, sess |-> lg.sess,
                   sent |-> <<sent>>, got |-> <<o>>, logins |-> <<[sent |-> lg.sent, got |-> lo, exc |-> lg.exc]>>]
             ELSE LET rest == request(lg.sess, req, FALSE, Tail(os), lo) IN
                  [rest EXCEPT !.sent = <<sent>> \o @, !.got = <<o>> \o @,
                               !.logins = <<[sent |-> lg.sent, got |-> lo, exc |-> lg.exc]>> \o @]
        ELSE [ret |-> o, exc |-> NoErr, sess |-> sess,
              sent |-> <<sent>>, got |-> <<o>>, logins |-> <<>>]

\* Every way one _request call can go, by the answers of the remote service.
RequestCalls(sess, req) ==
    UNION { IF ~IsExpired(o1) \/ o1 = ConnErr
            THEN {request(sess, req, TRUE, <<o1>>, NoLogin)}
            ELSE UNION { IF login(sess, lo).exc # NoErr
                         THEN {request(sess, req, TRUE, <<o1>>, lo)}
                         ELSE {request(sess, req, TRUE, <<o1, o2>>, lo) : o2 \in Outcomes}
                         : lo \in LoginOutcomes }
            : o1 \in Outcomes }

-----------------------------------------------------------------------------
\* Parser (workers/plaintext.py).

\* Payload bytes of the model: 'a', ' ', '.' and 0xFF, a byte no UTF-8 sequence
\* holds. The long payload fills more than two chunks and ends with its only '.'.
ReplacementChar == 65533
MaxPayload == 600
LongPayload ==
    [i \in 1..MaxPayload |-> IF i = MaxPayload THEN 46 ELSE IF i % 2 = 0 THEN 32 ELSE 97]
Payloads == {<<>>, <<97, 32, 255>>, <<255, 97>>, LongPayload}

\* bytes.decode('utf-8', errors='replace') on the bytes of the model.
DecodeByte(b) == IF b < 128 THEN b ELSE ReplacementChar
parse(raw) == [i \in 1..Len(raw) |-> DecodeByte(raw[i])]

\* TextParser.chunk: text[i:i+256] for i in range(0, len(text), 256).
ChunkWidth == 256
Min(a, b) == IF a < b THEN a ELSE b
\* Faulty variant of chunk: only full windows, the shorter last one is dropped.
chunk_DropTail(text) ==
    [k \in 1..(Len(text) \div ChunkWidth) |->
        SubSeq(text, (k - 1) * ChunkWidth + 1, Min(k * ChunkWidth, Len(text)))]

\* Faulty variant of chunk: the empty text gives one empty chunk.
chunk_EmptyAsOne(text) ==
    IF text = <<>> THEN << <<>> >>
    ELSE [k \in 1..((Len(text) + ChunkWidth - 1) \div ChunkWidth) |->
            SubSeq(text, (k - 1) * ChunkWidth + 1, Min(k * ChunkWidth, Len(text)))]

chunk(text) ==
    [k \in 1..((Len(text) + ChunkWidth - 1) \div ChunkWidth) |->
        SubSeq(text, (k - 1) * ChunkWidth + 1, Min(k * ChunkWidth, Len(text)))]

supported_types == <<"vectorize_text/plain; charset=utf-8">>

-----------------------------------------------------------------------------
\* Chunkers (workers/chunk.py).

\* The literals of SimpleChunk.chunk and BetterChunk.chunk.
SimpleWidth == 256
max_window_size == 512
step_size == 256
adjustment_threshold == 20

Space == 32
\* What str.rfind returns when the character is not there.
NotFound == -1

\* text[a:b] for offsets 0 <= a, b: the end is clamped to len(text).
Slice(text, a, b) == SubSeq(text, a + 1, Min(b, Len(text)))

\* text[a:b].rfind(ch) for 0 <= a <= b <= len(text): the 0-based index, in the
\* slice, of the last ch in it.
rfind(text, a, b, ch) ==
    LET at == {i \in (a + 1)..b : text[i] = ch} IN
    IF at = {} THEN NotFound ELSE (CHOOSE m \in at : \A x \in at : x <= m) - 1 - a

\* Faulty variant of SimpleIteration: the slice is one character short.
SimpleIteration_ShortSlice(text, i) ==
    [chunk |-> Slice(text, i, i + SimpleWidth - 1), current |-> i + SimpleWidth,
     start |-> i, end |-> Min(i + SimpleWidth, Len(text)), last_space |-> NotFound, snapped |-> FALSE]

\* SimpleChunk.chunk, one iteration of 'for i in range(0, len(text), 256)'.
SimpleIteration(text, i) ==
    [chunk |-> Slice(text, i, i + SimpleWidth), current |-> i + SimpleWidth,
     start |-> i, end |-> Min(i + SimpleWidth, Len(text)), last_space |-> NotFound, snapped |-> FALSE]

RECURSIVE SimpleChunkFrom(_, _)
SimpleChunkFrom(text, i) ==
    IF i < Len(text)
    THEN LET it == SimpleIteration(text, i) IN <<it.chunk>> \o SimpleChunkFrom(text, it.current)
    ELSE <<>>

\* SimpleChunk.chunk(text).
SimpleChunk(text) == SimpleChunkFrom(text, 0)

\* Faulty variant of AdjustedEnd: the chunk ends on the space, not after it.
AdjustedEnd_OnSpace(current, last_space) == current + last_space

\* Faulty variant of AdjustedEnd: the offset of the space inside the chunk is
\* taken as an offset in the text.
AdjustedEnd_InChunk(current, last_space) == last_space + 1

\* BetterChunk.chunk, line 41: the end of a snapped chunk.
AdjustedEnd(current, last_space) == current + last_space + 1

\* Faulty variant of Snaps: the distance to the window edge is not looked at.
Snaps_AnySpace(candidate, last_space) == last_space # NotFound

\* BetterChunk.chunk, line 40: the test for snapping to the last space.
Snaps(candidate, last_space) ==
    last_space # NotFound /\ (Len(candidate) - last_space) <= adjustment_threshold

\* Faulty variant of Advance: the cursor is left where it is.
Advance_Stuck(current) == current

\* Faulty variant of Advance: an unsnapped window is followed by the next
\* disjoint window.
Advance_FullWindow(current) == current + max_window_size

\* Faulty variant of Advance: the cursor jumps past the end of the window, so
\* the characters between the window and the cursor fall in no chunk.
Advance_PastWindow(current) == current + max_window_size + step_size

\* BetterChunk.chunk, line 45: the cursor after an unsnapped chunk.
Advance(current) == current + step_size

\* BetterChunk.chunk, one iteration of 'while current < len(text)'.
BetterIteration(text, current) ==
    LET end0 == current + max_window_size
        end == IF end0 > Len(text) THEN Len(text) ELSE end0
        candidate == Slice(text, current, end)
        last_space == rfind(text, current, end, Space)
    IN  IF Snaps(candidate, last_space)
        THEN [chunk |-> Slice(text, current, AdjustedEnd(current, last_space)),
              current |-> AdjustedEnd(current, last_space),
              start |-> current, end |-> end, last_space |-> last_space, snapped |-> TRUE]
        ELSE [chunk |-> candidate, current |-> Advance(current),
              start |-> current, end |-> end, last_space |-> last_space, snapped |-> FALSE]

RECURSIVE BetterChunkFrom(_, _)
BetterChunkFrom(text, current) ==
    IF current < Len(text)
    THEN LET it == BetterIteration(text, current) IN <<it.chunk>> \o BetterChunkFrom(text, it.current)
    ELSE <<>>

\* BetterChunk.chunk(text).
BetterChunk(text) == BetterChunkFrom(text, 0)

\* The loop state of a chunk(text) call: which chunker, its cursor, and the
\* cursor, window end, rfind result and branch of each iteration so far.
NoChunker == [kind |-> "", current |-> 0, iters |-> <<>>]
StartChunker(kind) == [kind |-> kind, current |-> 0, iters |-> <<>>]

-----------------------------------------------------------------------------
\* Steps.

\* int(config["lease_duration"]) on the values of the model; BadInt: ValueError.
BadInt == -1
ParseInt(s) == IF s = "30" THEN 30 ELSE BadInt

Configs ==
    [base_url : {"http://api"}, email : {"email"}, password : {"password"},
     leaser_id : {"worker-1"}, lease_duration : {"30", "abc"}, request_timeout : {"10"}]

\* Steps.__init__ as cycle calls it.
Steps(cfg) == [leaser_id |-> cfg.leaser_id, lease_duration |-> ParseInt(cfg.lease_duration)]

\* What a 201 lease answer's JSON may hold: a job object, or null (NoJob, the
\* None that response.json() returns for it); or the body is empty, not JSON.
Jobs == [id : JobIds \cup {NoneId}, entityId : EntityIds \cup {MissingKey}]
NoJob == [id |-> NoneId, entityId |-> NoneStr]
EmptyBody == [id |-> NoneId, entityId |-> "<empty body>"]
LeaseBodies == Jobs \cup {NoJob, EmptyBody}

\* Faulty variant of LeaseReq: no job types are named, so any type is asked for.
LeaseReq_AnyJobType(w) ==
    Req("post", <<"leases">>,
        [leaserId |-> w.leaser_id, leaseDuration |-> <<w.lease_duration, "s">>,
         jobTypes |-> <<>>])

LeaseReq(w) ==
    Req("post", <<"leases">>,
        [leaserId |-> w.leaser_id, leaseDuration |-> <<w.lease_duration, "s">>,
         jobTypes |-> supported_types])

\* Faulty variant of lease_job: a 204 is taken as "no job", like a 404.
lease_job_204IsNoJob(r, j) ==
    IF r.exc # NoErr THEN [exc |-> r.exc, none |-> TRUE, job |-> NoJob]
    ELSE IF r.ret.status \in {204, 404} THEN [exc |-> NoErr, none |-> TRUE, job |-> NoJob]
    ELSE IF r.ret.status # 201
    THEN [exc |-> Exc("Failed to lease job", r.ret), none |-> TRUE, job |-> NoJob]
    ELSE IF j = EmptyBody THEN [exc |-> JSONDecodeError, none |-> TRUE, job |-> NoJob]
    ELSE [exc |-> NoErr, none |-> j = NoJob, job |-> j]

\* Faulty variant of lease_job: the 404 test missing, so 404 raises like any non-201.
lease_job_No404(r, j) ==
    IF r.exc # NoErr THEN [exc |-> r.exc, none |-> TRUE, job |-> NoJob]
    ELSE IF r.ret.status # 201
    THEN [exc |-> Exc("Failed to lease job", r.ret), none |-> TRUE, job |-> NoJob]
    ELSE IF j = EmptyBody THEN [exc |-> JSONDecodeError, none |-> TRUE, job |-> NoJob]
    ELSE [exc |-> NoErr, none |-> j = NoJob, job |-> j]

\* Steps.lease_job on the outcome r of its session.post and the JSON j of the answer.
lease_job(r, j) ==
    IF r.exc # NoErr THEN [exc |-> r.exc, none |-> TRUE, job |-> NoJob]
    ELSE IF r.ret.status = 404 THEN [exc |-> NoErr, none |-> TRUE, job |-> NoJob]
    ELSE IF r.ret.status # 201
    THEN [exc |-> Exc("Failed to lease job", r.ret), none |-> TRUE, job |-> NoJob]
    ELSE IF j = EmptyBody THEN [exc |-> JSONDecodeError, none |-> TRUE, job |-> NoJob]
    ELSE [exc |-> NoErr, none |-> j = NoJob, job |-> j]

FetchReq(w, fid) == Req("get", <<"files", fid, "download">>, [none |-> TRUE])

\* Steps.fetch_file on the outcome r of its session.get and the answer's content.
fetch_file(r, content) ==
    IF r.exc # NoErr THEN [exc |-> r.exc, content |-> <<>>]
    ELSE IF r.ret.status # 200
    THEN [exc |-> Exc("Failed to fetch file", r.ret), content |-> <<>>]
    ELSE [exc |-> NoErr, content |-> content]

\* Faulty variant of MarkReq: the url names another job than the one held.
MarkReq_OtherJob(w, jid) ==
    Req("patch", <<"jobs", (jid % MaxJobs) + 1, "failed">>, [leaserId |-> w.leaser_id])

MarkReq(w, jid) == Req("patch", <<"jobs", jid, "failed">>, [leaserId |-> w.leaser_id])

\* Steps.mark_failed on the outcome r of its session.patch.
mark_failed(r) ==
    IF r.exc # NoErr THEN r.exc
    ELSE IF r.ret.status # 204 THEN Exc("Failed to mark job failed", r.ret)
    ELSE NoErr

\* Faulty variant of IngestReq: upsert is not passed on, replace keeps its default.
IngestReq_DefaultReplace(w, fid, jid, lease_id, cs, replace) ==
    Req("post", <<"index">>,
        [chunks |-> cs, id |-> fid, replace |-> FALSE, jobId |-> jid, leaserId |-> lease_id])

IngestReq(w, fid, jid, lease_id, cs, replace) ==
    Req("post", <<"index">>,
        [chunks |-> cs, id |-> fid, replace |-> replace, jobId |-> jid, leaserId |-> lease_id])

\* Faulty variant of ingest: only a 200 counts as success.
ingest_Only200(r) ==
    IF r.exc # NoErr THEN r.exc
    ELSE IF r.ret.status # 200 THEN Exc("Failed to ingest text", r.ret)
    ELSE NoErr

\* Steps.ingest on the outcome r of its session.post.
ingest(r) ==
    IF r.exc # NoErr THEN r.exc
    ELSE IF r.ret.status \notin {200, 204} THEN Exc("Failed to ingest text", r.ret)
    ELSE NoErr

-----------------------------------------------------------------------------
\* load_config and main (start_worker.py).

\* required_vars, in the order of the dict.
RequiredVars ==
    <<"API_BASE_URL", "WORKER_EMAIL", "WORKER_PASSWORD", "WORKER_LEASER_ID",
      "WORKER_LEASE_DURATION_SECONDS", "WORKER_REQUEST_TIMEOUT_SECONDS">>
ConfigKey(v) ==
    CASE v = "API_BASE_URL" -> "base_url"
      [] v = "WORKER_EMAIL" -> "email"
      [] v = "WORKER_PASSWORD" -> "password"
      [] v = "WORKER_LEASER_ID" -> "leaser_id"
      [] v = "WORKER_LEASE_DURATION_SECONDS" -> "lease_duration"
      [] v = "WORKER_REQUEST_TIMEOUT_SECONDS" -> "request_timeout"

\* os.getenv: a variable is unset, set to the empty string, or set to a value.
Unset == "<unset>"
EnvValue(v) ==
    CASE v = "API_BASE_URL" -> "http://api"
      [] v = "WORKER_EMAIL" -> "email"
      [] v = "WORKER_PASSWORD" -> "password"
      [] v = "WORKER_LEASER_ID" -> "worker-1"
      [] v = "WORKER_LEASE_DURATION_SECONDS" -> "30"
      [] v = "WORKER_REQUEST_TIMEOUT_SECONDS" -> "10"
WorkerTypes == {Unset, "plaintext", "PlainText", "pdf"}
EnvVars == Range(RequiredVars) \cup {"WORKER_TYPE"}
Envs ==
    {[v \in EnvVars |-> IF v = "WORKER_TYPE" THEN t
                        ELSE IF v \in unset THEN Unset
                        ELSE IF v \in empty THEN ""
                        ELSE EnvValue(v)] :
        t \in WorkerTypes, unset \in SUBSET Range(RequiredVars), empty \in SUBSET Range(RequiredVars)}

NoConfig ==
    [base_url |-> "", email |-> "", password |-> "", leaser_id |-> "", lease_duration |-> "",
     request_timeout |-> ""]

\* 'if not value' on what os.getenv returned.
NotValue(x) == x = Unset \/ x = ""

\* Faulty variant of load_config: the error names only the first missing variable.
load_config_FirstMissing(e) ==
    LET missing == SelectSeq(RequiredVars, LAMBDA v : NotValue(e[v])) IN
    IF missing # <<>>
    THEN [exc |-> ValueError, missing |-> <<Head(missing)>>, config |-> NoConfig]
    ELSE [exc |-> NoErr, missing |-> <<>>,
          config |-> [base_url |-> e["API_BASE_URL"], email |-> e["WORKER_EMAIL"],
                      password |-> e["WORKER_PASSWORD"], leaser_id |-> e["WORKER_LEASER_ID"],
                      lease_duration |-> e["WORKER_LEASE_DURATION_SECONDS"],
                      request_timeout |-> e["WORKER_REQUEST_TIMEOUT_SECONDS"]]]

\* load_config on the environment e: the dict it returns, or the ValueError it
\* raises and the names joined into its message.
load_config(e) ==
    LET missing == SelectSeq(RequiredVars, LAMBDA v : NotValue(e[v])) IN
    IF missing # <<>>
    THEN [exc |-> ValueError, missing |-> missing, config |-> NoConfig]
    ELSE [exc |-> NoErr, missing |-> <<>>,
          config |-> [base_url |-> e["API_BASE_URL"], email |-> e["WORKER_EMAIL"],
                      password |-> e["WORKER_PASSWORD"], leaser_id |-> e["WORKER_LEASER_ID"],
                      lease_duration |-> e["WORKER_LEASE_DURATION_SECONDS"],
                      request_timeout |-> e["WORKER_REQUEST_TIMEOUT_SECONDS"]]]

\* os.getenv("WORKER_TYPE", "plaintext").lower()
worker_type(e) ==
    Lower(IF e["WORKER_TYPE"] = Unset THEN "plaintext" ELSE e["WORKER_TYPE"])

\* The parameters of cycle, and the arguments main calls it with.
CycleParams == <<"parser", "config">>
MainCycleArgs == <<"TextParser()", "BetterChunk()", "config">>
TypeError == [prefix |-> "TypeError", status |-> 0, text |-> ""]

\* main(): the environment it runs in, the names in load_config's error, and
\* the arguments of its call of cycle.
NoMain == [env |-> [v \in EnvVars |-> Unset], missing |-> <<>>, called |-> <<>>]

-----------------------------------------------------------------------------
\* run and cycle.

\* The sleeps of run and cycle, in seconds.
NoJobSleep == 1
ReloginSleep == 5
ErrorSleep == 30

\* History kept per iteration of cycle's while loop.
NewAttempt ==
    [calls    |-> [lease |-> 0, fetch |-> 0, parse |-> 0, chunk |-> 0, ingest |-> 0, mark |-> 0],
     login    |-> NoLogin,    \* the answer to the login of the AuthSession cycle built
     leaseRet |-> NoResp,     \* the answer lease_job saw
     leaseBody |-> NoJob,     \* ... and its body
     leased   |-> NoJob,      \* the job a 201 lease answer held
     cause    |-> NoErr,      \* the first exception raised inside run
     causeAt  |-> "",         \* ... and the stage that raised it
     marks    |-> <<>>,       \* the (job_id, reason) of each mark_failed call
     ingestOk |-> FALSE,      \* ingest returned without raising
     markOk   |-> FALSE,      \* mark_failed returned without raising
     raised   |-> NoErr,      \* the exception that left run
     handler  |-> FALSE,      \* cycle's except clause ran
     relogin  |-> FALSE,      \* ... and built a new AuthSession
     sleeps   |-> <<>>]       \* the sleep() calls, in order

\* The latest Steps call: what it sent, the answer _request returned to it (NoResp
\* when _request raised) and, for fetch_file, the content of that answer.
NoRq == [stage |-> "", sent |-> <<>>, logins |-> <<>>, ret |-> NoResp, content |-> <<>>]
Rq(stage, r, content) ==
    [stage |-> stage, sent |-> r.sent, logins |-> r.logins, ret |-> r.ret, content |-> content]

NoCall == [req |-> Req("", <<>>, <<>>), before |-> NoSession, after |-> NoSession,
           ret |-> NoResp, exc |-> NoErr, sent |-> <<>>, got |-> <<>>, logins |-> <<>>]
Call(req, before, r) ==
    [req |-> req, before |-> before, after |-> r.sess,
     ret |-> r.ret, exc |-> r.exc, sent |-> r.sent, got |-> r.got, logins |-> r.logins]

\* Faulty variant of MarkReason: mark_failed called without reason= (its default).
MarkReason_Default(e) == [prefix |-> "unspecified", status |-> 0, text |-> ""]

\* str(e) as run passes it to mark_failed.
MarkReason(e) == e

\* The test of cycle's except clause on str(e).lower().
IsTokenError(e) ==
    e.status \in {400, 401} /\ HasExpiredText(Lower(e.text))

\* Faulty variant of ShouldMark: the except clause only prints.
ShouldMark_Never(jid) == FALSE

\* Faulty variant of ShouldMark: the except clause calls mark_failed whether or
\* not a job id was obtained.
ShouldMark_Always(jid) == TRUE

\* Faulty variant of ShouldMark: the test is inverted, mark_failed is called
\* exactly when no job id was obtained.
ShouldMark_Inverted(jid) == jid = NoneId

\* The guard of run's except clause.
ShouldMark(jid) == jid # NoneId

\* Faulty variant of NoJobId: the test is missing, a null id is taken as a job.
NoJobId_Ignored(job) == FALSE

\* run, lines 170-171: 'job_id = job["id"]' and the test 'job_id is None'.
NoJobId(job) == job.id = NoneId

Init ==
    /\ pc = "init"
    /\ config \in Configs
    /\ session = NoSession
    /\ job_id = NoneId
    /\ file_id = NoneStr
    /\ upsert = FALSE
    /\ raw_data = <<>>
    /\ parsed = <<>>
    /\ chunks = <<>>
    /\ err = NoErr
    /\ att = NewAttempt
    /\ lastRq = NoRq
    /\ call = NoCall
    /\ chunker = NoChunker
    /\ main = NoMain

\* cycle, lines 123-133: the first AuthSession; a failure is re-raised.
InitialLogin ==
    /\ pc = "init"
    /\ \E lo \in LoginOutcomes :
         LET lg == login(FreshSession, lo) IN
         /\ att' = [att EXCEPT !.login = lo]
         /\ IF lg.exc # NoErr
            THEN /\ pc' = "terminated"
                 /\ err' = lg.exc
                 /\ UNCHANGED session
            ELSE /\ pc' = "loop"
                 /\ session' = lg.sess
                 /\ UNCHANGED err
    /\ UNCHANGED <<config, job_id, file_id, upsert, raw_data, parsed, chunks, lastRq, call, chunker, main>>

\* cycle, lines 135-144, and run, line 162: build Steps and enter run.
LoopIter ==
    /\ pc = "loop"
    /\ job_id' = NoneId
    /\ file_id' = NoneStr
    /\ upsert' = FALSE
    /\ raw_data' = <<>>
    /\ parsed' = <<>>
    /\ chunks' = <<>>
    /\ IF Steps(config).lease_duration = BadInt
       THEN /\ pc' = "handler"
            /\ err' = ValueError
            /\ att' = [NewAttempt EXCEPT !.raised = ValueError]
       ELSE /\ pc' = "lease"
            /\ err' = NoErr
            /\ att' = NewAttempt
    /\ lastRq' = NoRq
    /\ UNCHANGED <<config, session, call, chunker, main>>

\* run, lines 193-197: the except clause, for exception e caught with job_id jid.
Caught(jid, e, stage, a) ==
    LET a1 == IF a.cause = NoErr THEN [a EXCEPT !.cause = e, !.causeAt = stage] ELSE a IN
    IF ShouldMark(jid)
    THEN /\ pc' = "mark_failed"
         /\ err' = e
         /\ att' = a1
    ELSE /\ pc' = "loop"
         /\ err' = NoErr
         /\ att' = a1

\* run, lines 165-179: lease_job and the reading of the job.
LeaseJob ==
    /\ pc = "lease"
    /\ \E r \in RequestCalls(session, LeaseReq(Steps(config))) :
       \E j \in (IF r.exc = NoErr /\ r.ret.status = 201 THEN LeaseBodies ELSE {NoJob}) :
         LET res == lease_job(r, j)
             a1 == [att EXCEPT !.calls.lease = @ + 1, !.leaseRet = r.ret, !.leaseBody = j,
                               !.leased = IF res.exc = NoErr /\ ~res.none THEN res.job ELSE NoJob]
         IN  /\ session' = r.sess
             /\ lastRq' = Rq("lease", r, <<>>)
             /\ IF res.exc # NoErr
                THEN /\ Caught(job_id, res.exc, "lease", a1)
                     /\ UNCHANGED <<job_id, file_id, upsert>>
                ELSE IF res.none \/ NoJobId(res.job)
                THEN /\ pc' = "loop"
                     /\ att' = [a1 EXCEPT !.sleeps = Append(@, NoJobSleep)]
                     /\ UNCHANGED <<job_id, file_id, upsert, err>>
                ELSE IF res.job.entityId = MissingKey
                THEN /\ job_id' = res.job.id
                     /\ Caught(res.job.id, KeyError("entityId"), "read", a1)
                     /\ UNCHANGED <<file_id, upsert>>
                ELSE /\ job_id' = res.job.id
                     /\ file_id' = res.job.entityId
                     /\ upsert' = (res.job.entityId = "update")
                     /\ pc' = "fetch"
                     /\ att' = a1
                     /\ UNCHANGED err
    /\ UNCHANGED <<config, raw_data, parsed, chunks, call, chunker, main>>

\* run, line 180: fetch_file.
FetchFile ==
    /\ pc = "fetch"
    /\ \E r \in RequestCalls(session, FetchReq(Steps(config), file_id)) :
       \E content \in (IF r.exc = NoErr /\ r.ret.status = 200 THEN Payloads ELSE {<<>>}) :
         LET res == fetch_file(r, content)
             a1 == [att EXCEPT !.calls.fetch = @ + 1]
         IN  /\ session' = r.sess
             /\ lastRq' = Rq("fetch", r, content)
             /\ IF res.exc # NoErr
                THEN /\ Caught(job_id, res.exc, "fetch", a1)
                     /\ UNCHANGED raw_data
                ELSE /\ raw_data' = res.content
                     /\ pc' = "parse"
                     /\ att' = a1
                     /\ UNCHANGED err
    /\ UNCHANGED <<config, job_id, file_id, upsert, parsed, chunks, call, chunker, main>>

\* run, line 183: parser.parse.
Parse ==
    /\ pc = "parse"
    /\ parsed' = parse(raw_data)
    /\ att' = [att EXCEPT !.calls.parse = @ + 1]
    /\ pc' = "chunk"
    /\ UNCHANGED <<config, session, job_id, file_id, upsert, raw_data, chunks, err, lastRq, call, chunker, main>>

\* run, line 186: parser.chunk.
Chunk ==
    /\ pc = "chunk"
    /\ chunks' = chunk(parsed)
    /\ att' = [att EXCEPT !.calls.chunk = @ + 1]
    /\ pc' = "ingest"
    /\ UNCHANGED <<config, session, job_id, file_id, upsert, raw_data, parsed, err, lastRq, call, chunker, main>>

\* run, lines 189-191: ingest; run returns when it succeeds.
Ingest ==
    /\ pc = "ingest"
    /\ \E r \in RequestCalls(session,
                    IngestReq(Steps(config), file_id, job_id, Steps(config).leaser_id, chunks, upsert)) :
         LET e == ingest(r)
             a1 == [att EXCEPT !.calls.ingest = @ + 1]
         IN  /\ session' = r.sess
             /\ lastRq' = Rq("ingest", r, <<>>)
             /\ IF e # NoErr
                THEN Caught(job_id, e, "ingest", a1)
                ELSE /\ pc' = "loop"
                     /\ att' = [a1 EXCEPT !.ingestOk = TRUE]
                     /\ UNCHANGED err
    /\ UNCHANGED <<config, job_id, file_id, upsert, raw_data, parsed, chunks, call, chunker, main>>

\* run, line 197: mark_failed inside the except clause; what it raises leaves run.
MarkFailed ==
    /\ pc = "mark_failed"
    /\ \E r \in RequestCalls(session, MarkReq(Steps(config), job_id)) :
         LET e == mark_failed(r)
             a1 == [att EXCEPT !.calls.mark = @ + 1,
                               !.marks = Append(@, [job_id |-> job_id, reason |-> MarkReason(err)])]
         IN  /\ session' = r.sess
             /\ lastRq' = Rq("mark_failed", r, <<>>)
             /\ IF e # NoErr
                THEN /\ pc' = "handler"
                     /\ err' = e
                     /\ att' = [a1 EXCEPT !.raised = e]
                ELSE /\ pc' = "loop"
                     /\ err' = NoErr
                     /\ att' = [a1 EXCEPT !.markOk = TRUE]
    /\ UNCHANGED <<config, job_id, file_id, upsert, raw_data, parsed, chunks, call, chunker, main>>

\* cycle, lines 145-158: the except clause of the while loop.
CycleHandler ==
    /\ pc = "handler"
    /\ IF IsTokenError(err)
       THEN \E lo \in LoginOutcomes :
              LET lg == login(FreshSession, lo) IN
              IF lg.exc # NoErr
              THEN /\ pc' = "terminated"
                   /\ err' = lg.exc
                   /\ att' = [att EXCEPT !.handler = TRUE, !.login = lo]
                   /\ UNCHANGED session
              ELSE /\ pc' = "loop"
                   /\ err' = NoErr
                   /\ session' = lg.sess
                   /\ att' = [att EXCEPT !.handler = TRUE, !.relogin = TRUE, !.login = lo,
                                         !.sleeps = Append(@, ReloginSleep)]
       ELSE /\ pc' = "loop"
            /\ err' = NoErr
            /\ att' = [att EXCEPT !.handler = TRUE, !.sleeps = Append(@, ErrorSleep)]
            /\ UNCHANGED session
    /\ UNCHANGED <<config, job_id, file_id, upsert, raw_data, parsed, chunks, lastRq, call, chunker, main>>

Next ==
    \/ InitialLogin
    \/ LoopIter
    \/ LeaseJob
    \/ FetchFile
    \/ Parse
    \/ Chunk
    \/ Ingest
    \/ MarkFailed
    \/ CycleHandler

Spec == Init /\ [][Next]_vars

-----------------------------------------------------------------------------
\* AuthSession on its own: any session that has logged in, any request.

AuthMethods == {"get", "post", "patch", "delete"}
\* get/post/patch/delete: _request with the method's name.
AuthReqs == {Req(m, <<"leases">>, [leaserId |-> "worker-1"]) : m \in AuthMethods}

AuthInit ==
    /\ pc = "auth"
    /\ config \in {c \in Configs : ParseInt(c.lease_duration) # BadInt}
    /\ session \in {[token |-> t, auth |-> Bearer(t), live |-> TRUE] : t \in Tokens}
    /\ job_id = NoneId
    /\ file_id = NoneStr
    /\ upsert = FALSE
    /\ raw_data = <<>>
    /\ parsed = <<>>
    /\ chunks = <<>>
    /\ err = NoErr
    /\ att = NewAttempt
    /\ lastRq = NoRq
    /\ call = NoCall
    /\ chunker = NoChunker
    /\ main = NoMain

\* One call of session.get/post/patch/delete.
AuthCall ==
    /\ pc = "auth"
    /\ \E req \in AuthReqs :
       \E r \in RequestCalls(session, req) :
         /\ session' = r.sess
         /\ call' = Call(req, session, r)
    /\ pc' = "returned"
    /\ UNCHANGED <<config, job_id, file_id, upsert, raw_data, parsed, chunks, err, att, lastRq, chunker, main>>

\* The caller takes the answer (or the exception); the session lives on.
AuthReturn ==
    /\ pc = "returned"
    /\ pc' = "auth"
    /\ call' = NoCall
    /\ UNCHANGED <<config, session, job_id, file_id, upsert, raw_data, parsed, chunks, err, att, lastRq, chunker, main>>

AuthNext ==
    \/ AuthCall
    \/ AuthReturn

AuthSpec == AuthInit /\ [][AuthNext]_vars

-----------------------------------------------------------------------------
\* The chunkers on their own: chunk(text) for the texts of the model.

\* Longest text of the model.
MaxText == 800
TextLens == {n \in {0, 1, 2, 21, 256, 257, 300, 512, 513, 600, 768, 769} : n <= MaxText} \cup {MaxText}
\* Where the texts of the model may have a space (1-based); 'a' elsewhere.
SpacePositions == {1, 2, 11, 237, 256, 280, 290, 492, 493, 512, 513, 600, 768, 790}
SpaceSets == {{}} \cup {{a, b} : a \in SpacePositions, b \in SpacePositions}
Text(n, spaces) == [i \in 1..n |-> IF i \in spaces THEN Space ELSE 97]
Texts == {Text(n, sp) : n \in TextLens, sp \in SpaceSets} \cup {parse(p) : p \in Payloads}

ChunkInit ==
    /\ pc = "chunk_call"
    /\ config = NoConfig
    /\ session = NoSession
    /\ job_id = NoneId
    /\ file_id = NoneStr
    /\ upsert = FALSE
    /\ raw_data = <<>>
    /\ parsed = <<>>
    /\ chunks = <<>>
    /\ err = NoErr
    /\ att = NewAttempt
    /\ lastRq = NoRq
    /\ call = NoCall
    /\ chunker = NoChunker
    /\ main = NoMain

\* chunk(text) is called on one of the chunkers: chunks = [], the cursor at 0.
ChunkCall ==
    /\ pc = "chunk_call"
    /\ pc' = "chunking"
    /\ parsed' \in Texts
    /\ chunker' \in {StartChunker(k) : k \in {"simple", "better"}}
    /\ UNCHANGED <<config, session, job_id, file_id, upsert, raw_data, chunks, err, att, lastRq, call, main>>

\* The cursor, window end, rfind result and branch of an iteration.
IterRecord(it) ==
    [start |-> it.start, end |-> it.end, last_space |-> it.last_space, snapped |-> it.snapped]

\* SimpleChunk.chunk, lines 13-14: one pass of the for loop.
SimpleIter ==
    /\ pc = "chunking"
    /\ chunker.kind = "simple"
    /\ chunker.current < Len(parsed)
    /\ LET it == SimpleIteration(parsed, chunker.current) IN
         /\ chunks' = Append(chunks, it.chunk)
         /\ chunker' = [chunker EXCEPT !.current = it.current, !.iters = Append(@, IterRecord(it))]
    /\ UNCHANGED <<pc, config, session, job_id, file_id, upsert, raw_data, parsed, err, att, lastRq, call, main>>

\* SimpleChunk.chunk, line 15: the range is exhausted.
SimpleReturn ==
    /\ pc = "chunking"
    /\ chunker.kind = "simple"
    /\ ~(chunker.current < Len(parsed))
    /\ pc' = "chunked"
    /\ UNCHANGED <<config, session, job_id, file_id, upsert, raw_data, parsed, chunks, err, att, lastRq, call, chunker, main>>

\* BetterChunk.chunk, lines 32-47: one pass of the while loop.
BetterIter ==
    /\ pc = "chunking"
    /\ chunker.kind = "better"
    /\ chunker.current < Len(parsed)
    /\ LET it == BetterIteration(parsed, chunker.current) IN
         /\ chunks' = Append(chunks, it.chunk)
         /\ chunker' = [chunker EXCEPT !.current = it.current, !.iters = Append(@, IterRecord(it))]
    /\ UNCHANGED <<pc, config, session, job_id, file_id, upsert, raw_data, parsed, err, att, lastRq, call, main>>

\* BetterChunk.chunk, line 49: the loop condition fails.
BetterReturn ==
    /\ pc = "chunking"
    /\ chunker.kind = "better"
    /\ ~(chunker.current < Len(parsed))
    /\ pc' = "chunked"
    /\ UNCHANGED <<config, session, job_id, file_id, upsert, raw_data, parsed, chunks, err, att, lastRq, call, chunker, main>>

ChunkNext ==
    \/ ChunkCall
    \/ SimpleIter
    \/ SimpleReturn
    \/ BetterIter
    \/ BetterReturn

ChunkSpec == ChunkInit /\ [][ChunkNext]_vars

\* The loops are run to their end: a chunk(text) call is not abandoned midway.
FairChunkSpec == ChunkSpec /\ WF_vars(ChunkNext)

-----------------------------------------------------------------------------
\* main() of start_worker.py, in any environment.

MainInit ==
    /\ pc = "main"
    /\ config = NoConfig
    /\ session = NoSession
    /\ job_id = NoneId
    /\ file_id = NoneStr
    /\ upsert = FALSE
    /\ raw_data = <<>>
    /\ parsed = <<>>
    /\ chunks = <<>>
    /\ err = NoErr
    /\ att = NewAttempt
    /\ lastRq = NoRq
    /\ call = NoCall
    /\ chunker = NoChunker
    /\ main \in {[env |-> e, missing |-> <<>>, called |-> <<>>] : e \in Envs}

\* main, line 9: load_config(); its ValueError ends main.
LoadConfig ==
    /\ pc = "main"
    /\ LET r == load_config(main.env) IN
         IF r.exc # NoErr
         THEN /\ pc' = "config_error"
              /\ err' = r.exc
              /\ main' = [main EXCEPT !.missing = r.missing]
              /\ UNCHANGED config
         ELSE /\ pc' = "configured"
              /\ config' = r.config
              /\ UNCHANGED <<err, main>>
    /\ UNCHANGED <<session, job_id, file_id, upsert, raw_data, parsed, chunks, att, lastRq, call, chunker>>

\* main, lines 11-17: the dispatch on WORKER_TYPE and the call of cycle.
StartWorker ==
    /\ pc = "configured"
    /\ IF worker_type(main.env) = "plaintext"
       THEN /\ main' = [main EXCEPT !.called = MainCycleArgs]
            /\ IF Len(MainCycleArgs) # Len(CycleParams)
               THEN /\ pc' = "crashed"
                    /\ err' = TypeError
               ELSE /\ pc' = "init"
                    /\ UNCHANGED err
       ELSE /\ pc' = "crashed"
            /\ err' = ValueError
            /\ UNCHANGED main
    /\ UNCHANGED <<config, session, job_id, file_id, upsert, raw_data, parsed, chunks, att, lastRq, call, chunker>>

MainNext ==
    \/ LoadConfig
    \/ StartWorker

MainSpec == MainInit /\ [][MainNext]_vars

-----------------------------------------------------------------------------
\* Properties.

\* C1 as stated: a first answer of 401 gives exactly one re-login and exactly
\* one more send of the request, and a 401 on the retry is returned as it is.
C1_Retry401_AsStated ==
    (pc = "returned" /\ call.got[1].status = 401) =>
        /\ Len(call.logins) = 1
        /\ Len(call.sent) = 2
        /\ (call.got[2].status = 401 => call.exc = NoErr /\ call.ret = call.got[2])

\* C1 amended: a first answer of 401 gives exactly one re-login attempt; when
\* it succeeds the same request is sent exactly once more and a 401 on that
\* retry is returned to the caller, with no second re-login and no third send;
\* when it fails its error is raised and the request is not sent again.
C1_Retry401 ==
    (pc = "returned" /\ call.got[1].status = 401) =>
        /\ Len(call.logins) = 1
        /\ IF call.logins[1].exc = NoErr
           THEN /\ Len(call.sent) = 2
                /\ Len(call.got) = 2
                /\ call.sent[1].req = call.req
                /\ call.sent[2].req = call.req
                /\ (call.got[2].status = 401 => call.exc = NoErr /\ call.ret = call.got[2])
           ELSE /\ Len(call.sent) = 1
                /\ call.exc = call.logins[1].exc
                /\ call.ret = NoResp

C1_Witness ==
    /\ pc = "returned"
    /\ Len(call.got) = 2
    /\ call.got[1].status = 401
    /\ call.got[2].status = 401
    /\ call.ret.status = 401
    /\ Len(call.logins) = 1

\* The f-string prefix of the exception each stage raises on a bad status.
StagePrefix(stage) ==
    CASE stage = "lease" -> "Failed to lease job"
      [] stage = "fetch" -> "Failed to fetch file"
      [] stage = "ingest" -> "Failed to ingest text"
      [] OTHER -> ""

LaterStages == {"read", "fetch", "parse", "chunk", "ingest"}

\* C2: once a job id is held, an error in a later stage leads straight to
\* mark_failed, called exactly once for that job id with the error's message
\* as reason (which names the stage whose answer was bad); no later stage
\* runs and no stage runs twice.
C2_StageErrorMarksFailedOnce ==
    (att.cause # NoErr /\ att.causeAt \in LaterStages) =>
        /\ att.leased.id # NoneId
        /\ pc \in {"mark_failed", "handler", "loop", "terminated"}
        /\ IF pc = "mark_failed"
           THEN att.marks = <<>> /\ att.calls.mark = 0
           ELSE /\ att.calls.mark = 1
                /\ att.marks = <<[job_id |-> att.leased.id, reason |-> att.cause]>>
        /\ (att.cause.status \in Statuses /\ att.cause.prefix # "Failed to login"
              => att.cause.prefix = StagePrefix(att.causeAt))
        /\ (att.causeAt = "read" => att.calls.fetch = 0)
        /\ (att.causeAt \in {"read", "fetch"}
              => att.calls.parse = 0 /\ att.calls.chunk = 0 /\ att.calls.ingest = 0)
        /\ \A st \in {"lease", "fetch", "parse", "chunk", "ingest"} : att.calls[st] <= 1
        /\ ~att.ingestOk

C2_Witness ==
    /\ pc = "loop"
    /\ att.causeAt = "fetch"
    /\ att.cause = [prefix |-> "Failed to fetch file", status |-> 500, text |-> ""]
    /\ att.calls.mark = 1
    /\ att.calls.ingest = 0

\* C3: when the lease endpoint answers 404, run sleeps 1s and returns
\* normally: nothing is fetched, ingested or marked failed, nothing is raised
\* to cycle, and the loop is back at its head.
C3_NoJobSleepsAndReturns ==
    (att.calls.lease = 1 /\ att.leaseRet.status = 404) =>
        /\ pc = "loop"
        /\ att.sleeps = <<NoJobSleep>>
        /\ att.calls.fetch = 0
        /\ att.calls.ingest = 0
        /\ att.calls.mark = 0
        /\ att.marks = <<>>
        /\ att.cause = NoErr
        /\ att.raised = NoErr
        /\ ~att.handler

C3_Witness ==
    /\ pc = "loop"
    /\ att.calls.lease = 1
    /\ att.leaseRet.status = 404
    /\ att.sleeps = <<1>>

\* C4 as stated: once the first login has succeeded, cycle never ends.
C4_LoopNeverTerminates ==
    session.live => pc # "terminated"

\* C5 as stated: after mark_failed has reported a stage failure, the error is
\* raised again, so cycle's except clause runs and sleeps before the next lease.
C5_ReraisedAfterMarkFailed ==
    (pc = "loop" /\ att.markOk /\ att.causeAt \in {"fetch", "parse", "chunk", "ingest"}) =>
        att.raised # NoErr /\ att.handler /\ att.sleeps # <<>>

\* The exceptions Steps raises for an answer of the wrong status.
StageErrorPrefixes ==
    {"Failed to lease job", "Failed to fetch file", "Failed to ingest text",
     "Failed to mark job failed"}

\* A credential-expiry error: a stage's answer was a 401, or a 400 saying the
\* token expired.
CredentialExpiry(e) ==
    /\ e.prefix \in StageErrorPrefixes
    /\ e.status = 401 \/ (e.status = 400 /\ HasExpiredText(Lower(e.text)))

\* A transport error: a stage's answer was non-2xx and not otherwise classified.
TransportError(e) ==
    /\ e.prefix \in StageErrorPrefixes
    /\ e.status \in {400, 404, 500}
    /\ ~CredentialExpiry(e)

\* C6 as stated: a non-2xx answer on lease, fetch, ingest or mark-failed
\* reaches cycle as an error, and cycle sleeps before the next lease request.
C6_BackoffBeforeNextLease ==
    (pc = "loop" /\ (TransportError(att.cause) \/ TransportError(att.raised))) =>
        att.handler /\ att.sleeps # <<>>

\* The last exception of the iteration: the one that left run, else the one run caught.
LastError == IF att.raised # NoErr THEN att.raised ELSE att.cause

\* C7 as stated: a credential-expiry error anywhere in an iteration makes
\* cycle build a new AuthSession and sleep 5s before it polls again.
C7_ExpiryForcesRelogin ==
    (pc = "loop" /\ (CredentialExpiry(att.cause) \/ CredentialExpiry(att.raised))) =>
        att.relogin /\ att.sleeps = <<ReloginSleep>>

\* C8 as stated: any other exception in an iteration makes cycle sleep 30s
\* before the next lease request, with no new AuthSession.
C8_OtherErrorsSleep30 ==
    (pc = "loop" /\ LastError # NoErr /\ ~CredentialExpiry(LastError)) =>
        att.sleeps = <<ErrorSleep>> /\ ~att.relogin

\* C9 as stated: before the next lease request the job of the earlier lease
\* is resolved: ingest answered 200/204 or mark_failed answered 204.
C9_ResolvedBeforeNextLease_AsStated ==
    (pc = "loop" /\ att.leased.id # NoneId) => (att.ingestOk \/ att.markOk)

\* C9 amended: before the next lease request the attempt on the job of the
\* earlier lease has run to its end: ingest answered 200/204, or mark_failed
\* was called once for it and either answered 204 or failed, in which case the
\* failure reached cycle, which slept; and no job is in hand while leasing.
C9_AttemptEndedBeforeNextLease ==
    /\ (pc = "loop" /\ att.leased.id # NoneId) =>
          \/ att.ingestOk /\ att.calls.mark = 0
          \/ /\ ~att.ingestOk
             /\ att.calls.mark = 1
             /\ att.marks[1].job_id = att.leased.id
             /\ \/ att.markOk /\ att.raised = NoErr
                \/ ~att.markOk /\ att.raised # NoErr /\ att.handler /\ att.sleeps # <<>>
    /\ (pc = "lease" => job_id = NoneId /\ att.leased = NoJob /\ att.calls.lease = 0)
    /\ att.calls.lease <= 1

C9_Witness ==
    /\ pc = "loop"
    /\ att.leased.id # NoneId
    /\ ~att.ingestOk
    /\ ~att.markOk
    /\ att.calls.mark = 1
    /\ att.raised.status = 500

\* C10: every download, ingest and mark_failed request names the entity and
\* the job of the lease answer of this iteration and the configured leaser
\* id, and mark_failed is not sent when no job id was obtained.
C10_ActsOnlyOnLeasedJob ==
    /\ lastRq.stage = "fetch" =>
          \A q \in Range(lastRq.sent) :
              q.req.url = <<"files", att.leased.entityId, "download">>
    /\ lastRq.stage = "ingest" =>
          \A q \in Range(lastRq.sent) :
              /\ q.req.json.id = att.leased.entityId
              /\ q.req.json.jobId = att.leased.id
              /\ q.req.json.leaserId = config.leaser_id
    /\ lastRq.stage = "mark_failed" =>
          \A q \in Range(lastRq.sent) :
              /\ q.req.url = <<"jobs", att.leased.id, "failed">>
              /\ q.req.json.leaserId = config.leaser_id
    /\ lastRq.stage \in {"fetch", "ingest", "mark_failed"} =>
          att.leased.id \in JobIds /\ att.leased.entityId \in EntityIds \cup {MissingKey}
    /\ att.calls.mark > 0 => att.leased.id \in JobIds
    /\ att.calls.fetch > 0 => att.leased.entityId \in EntityIds

C10_Witness ==
    /\ lastRq.stage = "mark_failed"
    /\ Len(lastRq.sent) = 2
    /\ att.calls.ingest = 1
    /\ att.leased.id = 2

\* C11: on an attempt where lease, fetch, parse, chunk and ingest all succeed,
\* each of them was called exactly once, mark_failed was never called, the
\* ingest request is the last request of the attempt, and (for a non-empty
\* parsed text) the last chunk handed to ingest ends with the last character
\* of the parsed text.
C11_SuccessIngestsOnce ==
    att.ingestOk =>
        /\ pc = "loop"
        /\ att.calls = [lease |-> 1, fetch |-> 1, parse |-> 1, chunk |-> 1, ingest |-> 1, mark |-> 0]
        /\ att.marks = <<>>
        /\ att.cause = NoErr
        /\ lastRq.stage = "ingest"
        /\ \A i \in DOMAIN lastRq.sent : lastRq.sent[i].req.url = <<"index">>
        /\ LET cs == lastRq.sent[Len(lastRq.sent)].req.json.chunks IN
             parsed # <<>> =>
                 /\ cs # <<>>
                 /\ cs[Len(cs)] # <<>>
                 /\ cs[Len(cs)][Len(cs[Len(cs)])] = parsed[Len(parsed)]

C11_Witness ==
    /\ att.ingestOk
    /\ Len(parsed) = MaxPayload
    /\ Len(lastRq.sent[1].req.json.chunks) > 2
    /\ att.calls.ingest = 1
    /\ att.calls.mark = 0

\* A body that says the token is expired.
SaysExpired(text) == text \in {"Token is expired", "token is expired"}

\* C12: when the first answer is neither a 401 nor a 400 saying the token is
\* expired (a 400 with another body, 404, 500, ...), the request was sent
\* exactly once, no login was made, the session's token and header are
\* unchanged, and the caller gets that answer as it is.
C12_OtherAnswersReturnedAsIs ==
    (/\ pc = "returned"
     /\ call.got[1] \in Responses
     /\ call.got[1].status # 401
     /\ ~(call.got[1].status = 400 /\ SaysExpired(call.got[1].text)))
    => /\ Len(call.sent) = 1
       /\ call.sent[1].req = call.req
       /\ call.logins = <<>>
       /\ call.after = call.before
       /\ session = call.before
       /\ call.exc = NoErr
       /\ call.ret = call.got[1]

C12_Witness ==
    /\ pc = "returned"
    /\ call.got[1].status = 500
    /\ call.ret.status = 500
    /\ Len(call.sent) = 1
    /\ call.logins = <<>>

\* A body that says the token is invalid.
SaysInvalid(text) == text = "invalid token"

\* C13 as stated: a first answer of 400 whose body says the token is expired
\* or invalid is handled like a 401: one re-login and, when it succeeds, one
\* more send of the request.
C13_ExpiredOrInvalid400_AsStated ==
    (/\ pc = "returned"
     /\ call.got[1].status = 400
     /\ (SaysExpired(call.got[1].text) \/ SaysInvalid(call.got[1].text)))
    => /\ Len(call.logins) = 1
       /\ (call.logins[1].exc = NoErr => Len(call.sent) = 2)

\* C13 amended: a first answer of 400 whose body says the token is expired is
\* handled like a 401: exactly one re-login, and when it succeeds exactly one
\* more send of the same request (when it fails, its error is raised and
\* nothing more is sent); a 400 whose body only says the token is invalid is
\* returned to the caller as it is, with no re-login and no retry.
C13_Expired400LikeA401 ==
    /\ (pc = "returned" /\ call.got[1].status = 400 /\ SaysExpired(call.got[1].text)) =>
          /\ Len(call.logins) = 1
          /\ (call.logins[1].exc = NoErr =>
                 /\ Len(call.sent) = 2
                 /\ call.sent[2].req = call.req
                 /\ (call.got[2] \in Responses => call.exc = NoErr /\ call.ret = call.got[2]))
          /\ (call.logins[1].exc # NoErr =>
                 /\ Len(call.sent) = 1
                 /\ call.exc = call.logins[1].exc)
    /\ (pc = "returned" /\ call.got[1].status = 400 /\ SaysInvalid(call.got[1].text)) =>
          /\ Len(call.sent) = 1
          /\ call.logins = <<>>
          /\ call.after = call.before
          /\ call.exc = NoErr
          /\ call.ret = call.got[1]

C13_Witness ==
    /\ pc = "returned"
    /\ call.got[1].status = 400
    /\ SaysExpired(call.got[1].text)
    /\ Len(call.logins) = 1
    /\ call.logins[1].exc = NoErr
    /\ Len(call.sent) = 2

\* The login answer is not a success carrying a token.
LoginFails(lo) == lo.status # 200 \/ lo.token = NoToken

\* C14: whenever the answer to the login of an AuthSession that cycle builds
\* is not a 200 or carries no token, login raises and cycle ends with that
\* error; when it is the first login, no lease request (no request at all) has
\* been sent. A 200 with a token lets cycle go on with that token.
C14_LoginFailurePropagates ==
    att.login # NoLogin =>
        /\ LoginFails(att.login) =>
              /\ pc = "terminated"
              /\ err.prefix \in {"Failed to login", "KeyError", "ConnectionError"}
              /\ (att.login.status \notin {0, 200} => err = Exc("Failed to login", att.login))
              /\ (att.login.status = 200 => err = KeyError("token"))
              /\ (~att.handler =>
                    /\ att.calls.lease = 0
                    /\ lastRq.sent = <<>>
                    /\ ~session.live)
        /\ ~LoginFails(att.login) =>
              /\ pc = "loop"
              /\ err = NoErr
              /\ session.token = att.login.token

C14_Witness ==
    /\ pc = "terminated"
    /\ ~att.handler
    /\ att.login.status = 200
    /\ att.login.token = NoToken
    /\ err = KeyError("token")
    /\ att.calls.lease = 0

\* The answers to the logins made in a step: by the AuthSession cycle builds,
\* or by _request inside a Steps call.
StepLogins ==
    IF pc \in {"init", "handler"}
    THEN (IF att'.login = NoLogin THEN {} ELSE {att'.login})
    ELSE IF pc \in {"lease", "fetch", "ingest", "mark_failed"}
    THEN {l.got : l \in Range(lastRq'.logins)}
    ELSE {}

\* C15: in every step of the worker, the session's token and Authorization
\* header stay as they are unless a login of that step succeeded (a step with
\* no login, or with a failed login, changes neither), and a successful login
\* leaves exactly the newly issued token, as token and as 'Bearer' header.
C15_TokenChangedOnlyByLogin ==
    [][ /\ (\A lo \in StepLogins : LoginFails(lo)) =>
              /\ session'.token = session.token
              /\ session'.auth = session.auth
        /\ \A lo \in StepLogins : ~LoginFails(lo) =>
              /\ session'.token = lo.token
              /\ session'.auth = Bearer(lo.token)
      ]_vars

C15_Witness ==
    /\ lastRq.stage = "fetch"
    /\ Len(lastRq.logins) = 1
    /\ ~LoginFails(lastRq.logins[1].got)
    /\ session.token = lastRq.logins[1].got.token
    /\ lastRq.sent[1].auth # Bearer(session.token)

\* C16: every request a Steps call sends through the AuthSession carries
\* 'Bearer ' + the token the session holds when it is sent: the first send the
\* token held before the call, and a re-send (after a successful re-login)
\* the token that login issued, which is the token held after the call.
C16_RequestsCarryCurrentToken ==
    [][ (pc = "lease" \/ pc = "fetch" \/ pc = "ingest" \/ pc = "mark_failed") =>
          /\ Len(lastRq'.sent) \in {1, 2}
          /\ session.token \in Tokens
          /\ lastRq'.sent[1].auth = Bearer(session.token)
          /\ (Len(lastRq'.sent) = 1 /\ lastRq'.logins = <<>> =>
                 lastRq'.sent[1].auth = Bearer(session'.token))
          /\ (Len(lastRq'.sent) = 2 =>
                 /\ ~LoginFails(lastRq'.logins[1].got)
                 /\ lastRq'.sent[2].auth = Bearer(lastRq'.logins[1].got.token)
                 /\ lastRq'.sent[2].auth = Bearer(session'.token))
      ]_vars

C16_Witness ==
    /\ lastRq.stage = "ingest"
    /\ Len(lastRq.sent) = 2
    /\ lastRq.sent[2].auth = Bearer(session.token)
    /\ lastRq.sent[1].auth # lastRq.sent[2].auth
    /\ lastRq.sent[1].auth.scheme = "Bearer"

\* C17: when the first answer signals expiry (401, or 400 saying the token is
\* expired) and the re-login succeeds, the same request (method, url, body) is
\* sent a second time with the newly issued token, and what the caller gets
\* is the outcome of that second send: its response, not the expiry response
\* (or the connection error, when the second send gets no response).
C17_ExpiredRequestResent ==
    (/\ pc = "returned"
     /\ call.got[1] \in Responses
     /\ (call.got[1].status = 401 \/ (call.got[1].status = 400 /\ SaysExpired(call.got[1].text))))
    => /\ Len(call.logins) = 1
       /\ ~LoginFails(call.logins[1].got) =>
             /\ Len(call.sent) = 2
             /\ Len(call.got) = 2
             /\ call.sent[1].req = call.req
             /\ call.sent[2].req = call.req
             /\ call.sent[2].auth = Bearer(call.logins[1].got.token)
             /\ call.after.token = call.logins[1].got.token
             /\ (call.got[2] \in Responses => call.exc = NoErr /\ call.ret = call.got[2])
             /\ (call.got[2] = ConnErr => call.exc = ConnectionError /\ call.ret = NoResp)

C17_Witness ==
    /\ pc = "returned"
    /\ call.got[1].status = 401
    /\ Len(call.sent) = 2
    /\ call.sent[2].auth # call.sent[1].auth
    /\ call.got[2].status = 200
    /\ call.ret = call.got[2]

\* C18 as stated: every request the worker sends (lease, download, ingest,
\* mark failed, and the re-logins made for them) is issued with the
\* request_timeout of the configuration as its timeout.
C18_RequestsCarryTimeout ==
    /\ \A i \in DOMAIN lastRq.sent : lastRq.sent[i].req.timeout = config.request_timeout
    /\ \A i \in DOMAIN lastRq.logins : lastRq.logins[i].sent.req.timeout = config.request_timeout

\* The lease answer has no content: a 204, or a 201 whose body is empty.
EmptyLeaseAnswer == att.leaseRet.status = 204 \/ (att.leaseRet.status = 201 /\ att.leaseBody = EmptyBody)

C20_SuccessStatuses ==
    /\ (lastRq.stage = "fetch" /\ lastRq.ret # NoResp) =>
          /\ (lastRq.ret.status # 200 <=> att.causeAt = "fetch")
          /\ (lastRq.ret.status # 200 => att.cause = Exc("Failed to fetch file", lastRq.ret))
          /\ (lastRq.ret.status = 200 =>
                 /\ raw_data = lastRq.content
                 /\ att.cause = NoErr
                 /\ (pc = "parse" \/ pc = "chunk" \/ pc = "ingest"))
    /\ (lastRq.stage = "ingest" /\ lastRq.ret # NoResp) =>
          /\ (lastRq.ret.status \notin {200, 204} <=> att.causeAt = "ingest")
          /\ (lastRq.ret.status \notin {200, 204} =>
                 att.cause = Exc("Failed to ingest text", lastRq.ret))
          /\ (lastRq.ret.status \in {200, 204} => att.ingestOk /\ att.cause = NoErr)
    /\ (lastRq.stage = "mark_failed" /\ lastRq.ret # NoResp) =>
          /\ (lastRq.ret.status # 204 <=> att.raised # NoErr)
          /\ (lastRq.ret.status # 204 =>
                 att.raised = Exc("Failed to mark job failed", lastRq.ret))
          /\ (lastRq.ret.status = 204 => att.markOk)

C20_Witness ==
    /\ lastRq.stage = "ingest"
    /\ lastRq.ret.status = 204
    /\ att.ingestOk
    /\ raw_data = LongPayload

\* C21 as stated: the chunk list of every ingest request is what the
\* sliding-window chunker (BetterChunk: window 512, step 256, threshold 20)
\* returns for the parsed text.
C21_IngestsSlidingWindowChunks ==
    lastRq.stage = "ingest" =>
        \A i \in DOMAIN lastRq.sent : lastRq.sent[i].req.json.chunks = BetterChunk(parsed)

\* C22 as stated: for a (non-empty) text of at most 512 characters, the
\* fixed-window chunker and the sliding-window chunker each return exactly
\* one chunk, the text itself.
C22_ShortTextOneChunk ==
    (pc = "chunked" /\ Len(parsed) >= 1 /\ Len(parsed) <= max_window_size) =>
        chunks = <<parsed>>

\* C23: for a non-empty text, no chunk the sliding-window chunker emits is
\* empty, and when it returns, its last chunk is the slice of the text that
\* ends at offset len(text): it ends with the last character of the text.
C23_SlidingChunksNonEmpty ==
    (chunker.kind = "better" /\ parsed # <<>>) =>
        /\ \A i \in DOMAIN chunks : chunks[i] # <<>>
        /\ pc = "chunked" =>
              LET n == Len(chunks) IN
              /\ n >= 1
              /\ Len(chunker.iters) = n
              /\ chunker.iters[n].start + Len(chunks[n]) = Len(parsed)
              /\ chunks[n] = SubSeq(parsed, chunker.iters[n].start + 1, Len(parsed))
              /\ chunks[n][Len(chunks[n])] = parsed[Len(parsed)]

C23_Witness ==
    /\ pc = "chunked"
    /\ chunker.kind = "better"
    /\ Len(parsed) > max_window_size
    /\ Len(chunks) >= 3
    /\ \E i \in DOMAIN chunker.iters : chunker.iters[i].snapped
    /\ chunks[Len(chunks)][Len(chunks[Len(chunks)])] = parsed[Len(parsed)]

\* The concatenation of a sequence of sequences, in order.
RECURSIVE Concat(_)
Concat(ss) == IF ss = <<>> THEN <<>> ELSE Head(ss) \o Concat(Tail(ss))

\* C24: what the fixed-window chunker returns for a text are the consecutive
\* slices text[256(i-1) : 256 i]: each exactly 256 characters long except the
\* last, which has between 1 and 256; concatenated in order they are the
\* text. TextParser.chunk returns the same list.
C24_FixedWindowPartitions ==
    (pc = "chunked" /\ chunker.kind = "simple") =>
        LET n == Len(chunks) IN
        /\ \A i \in 1..n :
              /\ chunks[i] = SubSeq(parsed, SimpleWidth * (i - 1) + 1, Min(SimpleWidth * i, Len(parsed)))
              /\ (i < n => Len(chunks[i]) = SimpleWidth)
              /\ Len(chunks[i]) >= 1
              /\ Len(chunks[i]) <= SimpleWidth
        /\ Concat(chunks) = parsed
        /\ chunk(parsed) = chunks

C24_Witness ==
    /\ pc = "chunked"
    /\ chunker.kind = "simple"
    /\ Len(chunks) >= 3
    /\ Len(chunks[Len(chunks)]) < SimpleWidth
    /\ Concat(chunks) = parsed

\* The window of iteration i of the sliding-window loop, and the 0-based
\* indexes of its spaces that lie within the threshold of its end.
WindowOf(i) ==
    SubSeq(parsed, chunker.iters[i].start + 1,
           Min(chunker.iters[i].start + max_window_size, Len(parsed)))
NearEdgeSpaces(w) ==
    {j \in 0..(Len(w) - 1) : w[j + 1] = Space /\ Len(w) - j <= adjustment_threshold}

\* C25: in every iteration of the sliding-window chunker, when the window
\* text[c:end] has a space at most 20 characters from its end, the chunk
\* emitted is text[c : c + j + 1] for the last such space j, so it ends with
\* that space; when there is none, the chunk emitted is the whole window.
C25_SnapsAfterLastSpace ==
    chunker.kind = "better" =>
        /\ Len(chunks) = Len(chunker.iters)
        /\ \A i \in DOMAIN chunker.iters :
              LET c == chunker.iters[i].start
                  w == WindowOf(i)
                  near == NearEdgeSpaces(w)
              IN  IF near # {}
                  THEN LET j == CHOOSE x \in near : \A y \in near : y <= x IN
                       /\ chunker.iters[i].snapped
                       /\ chunker.iters[i].last_space = j
                       /\ chunks[i] = SubSeq(parsed, c + 1, c + j + 1)
                       /\ chunks[i][Len(chunks[i])] = Space
                  ELSE /\ ~chunker.iters[i].snapped
                       /\ chunks[i] = w

C25_Witness ==
    /\ chunker.kind = "better"
    /\ \E i \in DOMAIN chunker.iters :
          /\ chunker.iters[i].snapped
          /\ Len(WindowOf(i)) = max_window_size
          /\ Len(chunks[i]) < max_window_size
          /\ chunks[i][Len(chunks[i])] = Space
    /\ \E i \in DOMAIN chunker.iters : ~chunker.iters[i].snapped /\ chunks[i] = WindowOf(i)

\* C26: in the sliding-window chunker the first chunk starts at offset 0;
\* the chunk after a snapped chunk starts at the offset where the snapped
\* chunk ended; the chunk after an unsnapped chunk starts 256 characters
\* after the start of that chunk; and a full 512-character unsnapped chunk
\* has a successor whose first 256 characters are its last 256 characters.
C26_CursorAdvance ==
    chunker.kind = "better" =>
        /\ Len(chunks) = Len(chunker.iters)
        /\ (chunker.iters # <<>> => chunker.iters[1].start = 0)
        /\ \A i \in DOMAIN chunker.iters :
              LET it == chunker.iters[i]
                  next == IF i < Len(chunker.iters) THEN chunker.iters[i + 1].start
                          ELSE chunker.current
              IN  /\ (it.snapped => next = it.start + Len(chunks[i]))
                  /\ (~it.snapped => next = it.start + step_size)
                  /\ (~it.snapped /\ Len(chunks[i]) = max_window_size /\ pc = "chunked") =>
                        /\ i < Len(chunks)
                        /\ Len(chunks[i + 1]) >= max_window_size - step_size
                        /\ SubSeq(chunks[i + 1], 1, max_window_size - step_size)
                             = SubSeq(chunks[i], step_size + 1, max_window_size)

C26_Witness ==
    /\ pc = "chunked"
    /\ chunker.kind = "better"
    /\ \E i \in 1..(Len(chunks) - 1) :
          /\ chunker.iters[i].snapped
          /\ chunker.iters[i + 1].start = chunker.iters[i].start + Len(chunks[i])
    /\ \E i \in 1..(Len(chunks) - 1) :
          /\ ~chunker.iters[i].snapped
          /\ Len(chunks[i]) = max_window_size
          /\ chunker.iters[i + 1].start = chunker.iters[i].start + step_size

\* C27: every pass of either chunker's loop moves the cursor strictly
\* forward (the sliding-window loop by last_space + 1 >= 1 on a snap and by
\* 256 otherwise, the fixed-window loop by 256), and every chunk(text) call
\* returns.
C27_ChunkTerminates ==
    /\ [][ (pc = "chunking" /\ pc' = "chunking") =>
              LET it == chunker'.iters[Len(chunker'.iters)]
                  by == chunker'.current - chunker.current
              IN  /\ Len(chunker'.iters) = Len(chunker.iters) + 1
                  /\ by >= 1
                  /\ (it.snapped => by = it.last_space + 1)
                  /\ (~it.snapped /\ chunker.kind = "better" => by = step_size)
                  /\ (chunker.kind = "simple" => by = SimpleWidth)
          ]_vars
    /\ <>(pc = "chunked")

C27_Witness ==
    /\ pc = "chunked"
    /\ chunker.kind = "better"
    /\ Len(chunks) >= 4
    /\ chunker.current >= Len(parsed)

\* C28: in every ingest request the replace flag is TRUE when the entityId
\* of the leased job is "update" and FALSE for any other entityId.
C28_ReplaceIffUpdate ==
    lastRq.stage = "ingest" =>
        \A i \in DOMAIN lastRq.sent :
            /\ lastRq.sent[i].req.json.replace \in BOOLEAN
            /\ lastRq.sent[i].req.json.replace <=> (att.leased.entityId = "update")
            /\ lastRq.sent[i].req.json.id = att.leased.entityId

C28_Witness ==
    /\ lastRq.stage = "ingest"
    /\ att.leased.entityId = "update"
    /\ lastRq.sent[1].req.json.replace = TRUE
    /\ att.ingestOk

\* The required variables the environment does not have.
AbsentVars == {v \in Range(RequiredVars) : main.env[v] = Unset}

\* C29: once load_config has run, if any required variable is absent it has
\* raised one ValueError whose message names every absent variable, no
\* configuration exists and cycle was not called (no login, no request);
\* and a configuration exists only if all six variables are set to non-empty
\* values, which it holds under their keys.
C29_ConfigFailsFast ==
    pc # "main" =>
        /\ AbsentVars # {} =>
              /\ pc = "config_error"
              /\ err = ValueError
              /\ AbsentVars \subseteq Range(main.missing)
              /\ config = NoConfig
        /\ pc = "config_error" =>
              /\ Range(main.missing) = {v \in Range(RequiredVars) : NotValue(main.env[v])}
              /\ Len(main.missing) = Cardinality(Range(main.missing))
              /\ main.called = <<>>
              /\ session = NoSession
              /\ lastRq = NoRq
              /\ att = NewAttempt
        /\ config # NoConfig =>
              /\ AbsentVars = {}
              /\ main.missing = <<>>
              /\ \A v \in Range(RequiredVars) :
                    /\ ~NotValue(main.env[v])
                    /\ config[ConfigKey(v)] = main.env[v]

C29_Witness ==
    /\ pc = "config_error"
    /\ Cardinality(AbsentVars) >= 2
    /\ AbsentVars \subseteq Range(main.missing)
    /\ err = ValueError

\* C30 as stated: with a complete configuration and WORKER_TYPE unset or
\* 'plaintext', once main has dispatched it is inside cycle, which stands at
\* its initial login (to be followed by the first lease request): main has
\* not ended with an error before any login.
C30_StartReachesLogin ==
    (/\ config # NoConfig
     /\ main.env["WORKER_TYPE"] \in {Unset, "plaintext"}
     /\ pc # "main"
     /\ pc # "configured")
    => (pc = "init" /\ err = NoErr)

\* C31: every lease request the worker sends, the one re-sent after a re-login
\* included, carries the configured leaserId, the configured lease duration as
\* "<n>s", and as jobTypes the list supported_types() of the parser, which for
\* the plain-text parser names exactly one content type.
C31_LeaseRequestPayload ==
    lastRq.stage = "lease" =>
        /\ lastRq.sent # <<>>
        /\ \A i \in 1..Len(lastRq.sent) :
             LET q == lastRq.sent[i].req IN
             /\ q.method = "post"
             /\ q.url = <<"leases">>
             /\ q.json.leaserId = config.leaser_id
             /\ q.json.leaseDuration = <<ParseInt(config.lease_duration), "s">>
             /\ q.json.leaseDuration[1] # BadInt
             /\ q.json.jobTypes = supported_types
             /\ Len(q.json.jobTypes) = 1

\* A lease request was sent twice: once, and again after a re-login.
C31_Witness ==
    /\ lastRq.stage = "lease"
    /\ Len(lastRq.sent) = 2
    /\ lastRq.sent[2].req.json.jobTypes = supported_types
    /\ lastRq.sent[2].auth # lastRq.sent[1].auth

\* C32: an exception reaches the except clause of cycle's while loop only when
\* mark_failed failed for a leased job, or when building the Steps object failed
\* before run was entered.  Every other error of an attempt (a failed lease; a
\* failed read, fetch, parse, chunk or ingest whose mark_failed call succeeded)
\* stays inside run: run returns normally, and cycle neither sleeps nor builds
\* a new AuthSession before the next lease request.
C32_OnlyMarkFailureReachesHandler ==
    /\ (pc = "handler" \/ att.handler) =>
          /\ att.raised # NoErr
          /\ \/ /\ att.calls.mark = 1
                /\ ~att.markOk
                /\ job_id # NoneId
                /\ att.leased.id = job_id
                /\ att.cause # NoErr
             \/ /\ att.calls.lease = 0
                /\ att.calls.mark = 0
                /\ Steps(config).lease_duration = BadInt
                /\ att.raised = ValueError
    /\ (pc = "loop" /\ att.cause # NoErr /\ (att.calls.mark = 0 \/ att.markOk)) =>
          /\ att.raised = NoErr
          /\ ~att.handler
          /\ ~att.relogin
          /\ att.sleeps = <<>>
          /\ err = NoErr
          /\ ENABLED LoopIter

\* mark_failed failed for a leased job whose ingest had failed, and the
\* exception is in cycle's except clause.
C32_Witness ==
    /\ pc = "handler"
    /\ att.causeAt = "ingest"
    /\ att.calls.mark = 1
    /\ att.raised # NoErr
    /\ job_id # NoneId

\* The absorbed cases: a failed lease, and a failed fetch marked successfully.
C32_AbsorbedLease == pc = "loop" /\ att.causeAt = "lease" /\ att.calls.mark = 0 /\ att.sleeps = <<>>
C32_AbsorbedMarked == pc = "loop" /\ att.causeAt = "fetch" /\ att.markOk /\ att.sleeps = <<>>
C32_StepsFailed == pc = "handler" /\ att.calls.lease = 0 /\ att.raised = ValueError

\* C33: when lease_job raised (the lease answer was neither 201 nor 404, or its
\* body could not be decoded, or the auth layer failed during the lease), no
\* job id has been obtained, and within that attempt fetch_file, parse, chunk,
\* ingest and mark_failed are never called.
C33_FailedLeaseTouchesNoJob ==
    att.causeAt = "lease" =>
        /\ att.cause # NoErr
        /\ \/ att.leaseRet = NoResp
           \/ att.leaseRet.status \notin {201, 404}
           \/ att.leaseRet.status = 201 /\ att.leaseBody = EmptyBody
        /\ job_id = NoneId
        /\ att.leased = NoJob
        /\ att.calls.lease = 1
        /\ att.calls.fetch = 0
        /\ att.calls.parse = 0
        /\ att.calls.chunk = 0
        /\ att.calls.ingest = 0
        /\ att.calls.mark = 0
        /\ att.marks = <<>>
        /\ pc \notin {"fetch", "parse", "chunk", "ingest", "mark_failed"}

\* lease_job raised on a 500 answer and run has returned.
C33_Witness ==
    /\ pc = "loop"
    /\ att.causeAt = "lease"
    /\ att.leaseRet.status = 500
    /\ att.cause.prefix = "Failed to lease job"
    /\ att.calls.mark = 0

\* lease_job raised because the re-login inside the auth layer failed.
C33_AuthLayerFailure ==
    /\ pc = "loop"
    /\ att.causeAt = "lease"
    /\ att.leaseRet = NoResp
    /\ lastRq.logins # <<>>

\* C34: when the re-login that an expiry answer (a 401, or a 400 saying the
\* token is expired) triggers fails, _request raises the login's error to its
\* caller: the request is not sent again, the expiry answer is not returned,
\* and the session keeps the token and the Authorization header it had.
C34_FailedReloginRaises ==
    (pc = "returned" /\ IsExpired(call.got[1]) /\ call.logins # <<>>
        /\ LoginFails(call.logins[1].got)) =>
        /\ Len(call.logins) = 1
        /\ call.logins[1].exc # NoErr
        /\ call.exc = call.logins[1].exc
        /\ call.exc.prefix \in {"Failed to login", "KeyError", "ConnectionError"}
        /\ call.ret = NoResp
        /\ Len(call.sent) = 1
        /\ Len(call.got) = 1
        /\ call.after.token = call.before.token
        /\ call.after.auth = call.before.auth
        /\ session = call.before

\* A 400 "token is expired" answer, then a login answered 500: the login error
\* was raised and the old token kept.
C34_Witness ==
    /\ pc = "returned"
    /\ call.got[1].status = 400
    /\ Len(call.logins) = 1
    /\ call.logins[1].got.status = 500
    /\ call.exc = Exc("Failed to login", call.logins[1].got)
    /\ Len(call.sent) = 1
    /\ session.token = call.before.token

\* The offset in the text where chunk i of the sliding-window chunker ends.
ChunkEnd(i) == chunker.iters[i].start + Len(chunks[i])

\* C35: the chunks the sliding-window chunker returns cover the text without
\* loss: every position of the text lies inside some chunk, which holds the
\* text's character at that position; the first chunk starts at offset 0, the
\* last one ends at len(text), and each chunk starts at or before the offset
\* where the chunk before it ended, so no gap is left between them.
C35_SlidingChunksCover ==
    (pc = "chunked" /\ chunker.kind = "better") =>
        /\ Len(chunks) = Len(chunker.iters)
        /\ \A p \in 1..Len(parsed) :
              \E i \in DOMAIN chunks :
                 /\ chunker.iters[i].start < p
                 /\ p <= ChunkEnd(i)
                 /\ chunks[i][p - chunker.iters[i].start] = parsed[p]
        /\ (chunks # <<>> => chunker.iters[1].start = 0 /\ ChunkEnd(Len(chunks)) = Len(parsed))
        /\ \A i \in 1..(Len(chunks) - 1) : chunker.iters[i + 1].start <= ChunkEnd(i)

\* A text longer than one window, returned as chunks of which one was cut
\* after a space (the next chunk starts where it ends) and one was a full
\* window (the next chunk overlaps it).
C35_Witness ==
    /\ pc = "chunked"
    /\ chunker.kind = "better"
    /\ Len(parsed) > max_window_size
    /\ \E i \in 1..(Len(chunks) - 1) :
          chunker.iters[i].snapped /\ chunker.iters[i + 1].start = ChunkEnd(i)
    /\ \E i \in 1..(Len(chunks) - 1) :
          ~chunker.iters[i].snapped /\ chunker.iters[i + 1].start < ChunkEnd(i)
    /\ \E p \in 1..Len(parsed) : parsed[p] = Space

\* C36: every chunk the sliding-window chunker emits is a contiguous slice of
\* the text, text[start : start + len(chunk)] for the cursor position start at
\* which it was cut, of at most 512 characters and lying inside the text; and
\* the start offsets of successive chunks are strictly increasing.
C36_SlidingChunksAreSlices ==
    chunker.kind = "better" =>
        /\ Len(chunks) = Len(chunker.iters)
        /\ \A i \in DOMAIN chunks :
              LET start == chunker.iters[i].start IN
              /\ start >= 0
              /\ start + Len(chunks[i]) <= Len(parsed)
              /\ Len(chunks[i]) <= max_window_size
              /\ chunks[i] = SubSeq(parsed, start + 1, start + Len(chunks[i]))
              /\ (i > 1 => chunker.iters[i - 1].start < start)
        /\ (chunker.iters # <<>> => chunker.iters[Len(chunker.iters)].start < chunker.current)

\* Three or more chunks of one text, among them a full window of 512
\* characters and a chunk cut after a space that starts inside the text.
C36_Witness ==
    /\ pc = "chunked"
    /\ chunker.kind = "better"
    /\ Len(chunks) >= 3
    /\ \E i \in DOMAIN chunks : Len(chunks[i]) = max_window_size
    /\ \E i \in DOMAIN chunks :
          /\ chunker.iters[i].snapped
          /\ chunker.iters[i].start > 0
          /\ Len(chunks[i]) < max_window_size
          /\ chunks[i] = SubSeq(parsed, chunker.iters[i].start + 1, ChunkEnd(i))

\* What a 404 lease answer leaves: run slept one second and returned, nothing
\* else was called.
NotFoundAttempt ==
    att.leaseRet.status = 404 =>
        /\ pc = "loop"
        /\ job_id = NoneId
        /\ err = NoErr
        /\ [att EXCEPT !.leaseRet = NoResp]
             = [NewAttempt EXCEPT !.calls.lease = 1, !.sleeps = <<NoJobSleep>>]

\* C37: a 201 lease answer holding a job whose id is null is treated like "no
\* job": run sleeps 1 second and returns normally, with no job id held, without
\* calling fetch_file, parse, chunk, ingest or mark_failed, and cycle's except
\* clause does not run; apart from the lease answer itself the attempt is the
\* one a 404 gives.
C37_NullJobIdIsNoJob ==
    /\ NotFoundAttempt
    /\ (att.leaseRet.status = 201 /\ att.leaseBody \in Jobs /\ att.leaseBody.id = NoneId) =>
          /\ pc = "loop"
          /\ job_id = NoneId
          /\ file_id = NoneStr
          /\ err = NoErr
          /\ [att EXCEPT !.leaseRet = NoResp, !.leaseBody = NoJob, !.leased = NoJob]
               = [NewAttempt EXCEPT !.calls.lease = 1, !.sleeps = <<NoJobSleep>>]

\* A 201 answer with a job object whose id is null and whose entityId names a
\* file: run slept one second and returned.
C37_Witness ==
    /\ pc = "loop"
    /\ att.leaseRet.status = 201
    /\ att.leaseBody.id = NoneId
    /\ att.leaseBody.entityId = "file-1"
    /\ att.sleeps = <<NoJobSleep>>
    /\ att.calls.fetch = 0

\* The payload of the leased job was fetched and parsed to the empty text.
ParsedEmpty == att.calls.parse = 1 /\ parsed = <<>>

\* The chunkers of chunk.py and the parser's own chunk, on the empty text.
ChunkersOnEmpty ==
    /\ SimpleChunk(<<>>) = <<>>
    /\ BetterChunk(<<>>) = <<>>
    /\ chunk(<<>>) = <<>>

\* C38 as stated: for the empty text the chunkers return zero chunks, and a
\* leased job whose payload parses to the empty text is ingested: ingest is
\* called once with an empty chunk list and mark_failed is not called.
C38_EmptyTextIngested_AsStated ==
    /\ ChunkersOnEmpty
    /\ (ParsedEmpty /\ pc \notin {"chunk", "ingest"}) =>
          /\ att.calls.ingest = 1
          /\ chunks = <<>>
          /\ att.calls.mark = 0
          /\ pc # "mark_failed"

\* C38 amended: for the empty text the chunkers return zero chunks, and a
\* leased job whose payload parses to the empty text is not failed for being
\* empty: chunk returns the empty list, ingest is called once and every ingest
\* request carries that empty list.  mark_failed is not called when ingest
\* succeeds; it is called, once, only when the ingest call itself failed.
C38_EmptyTextIngested ==
    /\ ChunkersOnEmpty
    /\ ParsedEmpty =>
          /\ (att.calls.chunk = 1 => chunks = <<>>)
          /\ (pc \notin {"chunk", "ingest"} => att.calls.ingest = 1)
          /\ (lastRq.stage = "ingest" =>
                \A i \in 1..Len(lastRq.sent) : lastRq.sent[i].req.json.chunks = <<>>)
          /\ att.calls.mark <= 1
          /\ ((att.calls.mark = 1 \/ pc = "mark_failed") =>
                att.causeAt = "ingest" /\ ~att.ingestOk)
          /\ (att.ingestOk =>
                /\ att.calls.ingest = 1
                /\ att.calls.mark = 0
                /\ att.cause = NoErr
                /\ pc = "loop")

\* An empty payload was fetched for a leased job and ingest, called with the
\* empty chunk list, succeeded.
C38_Witness ==
    /\ pc = "loop"
    /\ ParsedEmpty
    /\ job_id # NoneId
    /\ att.ingestOk
    /\ lastRq.stage = "ingest"
    /\ lastRq.sent[1].req.json.chunks = <<>>
    /\ att.calls.mark = 0

\* Both chunkers of chunk.py, run on the empty text, return zero chunks
\* without a pass of their loops.
C38_ChunkersReturnNothing ==
    (pc = "chunked" /\ parsed = <<>>) => chunks = <<>> /\ chunker.iters = <<>>
C38_ChunkersWitness == pc = "chunked" /\ parsed = <<>> /\ chunker.kind = "better"

====
